---- MODULE Spec2Model ----
(***************************************************************************)
(* Model of venv/Scripts/project.py: the Tk front end that fetches an      *)
(* inmate detail page, extracts a record, upserts it into a MongoDB        *)
(* collection and shows it.                                                *)
(*                                                                         *)
(* Two execution contexts are modelled: the Tk main thread (button         *)
(* callback and the event loop that runs root.after callbacks) and one     *)
(* background thread per dispatched request.  Requests are numbered in the *)
(* order the button was pressed; request i runs in thread i.               *)
(*                                                                         *)
(* The MongoDB collection is a sequence of documents in natural order.     *)
(* A document is a function from field names to values.  The store's own   *)
(* "_id" field is not a field of any record and is left out: documents are *)
(* compared on the fields the application writes.                          *)
(***************************************************************************)
EXTENDS Integers, Sequences, FiniteSets, TLC

\* Number of times the "Fetch Details" button is pressed in a run.
MaxRequests == 2

VARIABLES
    nreq,            \* button presses so far; requests are 1..nreq
    dc_number,       \* dc_number[i]: text of the entry when request i was made
    pc,              \* pc[i]: position of request i / of its worker thread
    response,        \* response[i]: what requests.get produced in thread i
    inmate_details,  \* inmate_details[i]: the dict thread i got from fetch_inmate_details
    branch,          \* branch[i]: arm of fetch_and_store_inmate_details thread i took
    eBound,          \* eBound[i]: the name e is still bound in thread i's frame
    matched,         \* matched[i]: position update_one's filter matched (0: none)
    storeFailed,     \* storeFailed[i]: update_one raised inside store_inmate_details
    collection,      \* the MongoDB collection
    afterQueue,      \* callbacks queued with root.after(0, ...), in order
    details_frame,   \* what details_frame shows, and the context that drew it
    sink,            \* sink[i]: dialogs and renderings made for request i
    tkErrors,        \* requests whose queued callback raised inside the Tk loop
    calls            \* direct calls of store_inmate_details that wrote (repository runs only)

vars == <<nreq, dc_number, pc, response, inmate_details, branch, eBound, matched,
          storeFailed, collection, afterQueue, details_frame, sink, tkErrors, calls>>

Requests == 1..MaxRequests

\* ------------------------------------------------------------------------
\* Inputs
\* ------------------------------------------------------------------------

\* Texts the entry can hold when the button is pressed ("" is the empty entry).
Keys == {"123456", "999999"}
EntryTexts == Keys \cup {""}

Absent == "<absent>"          \* an element soup.find does not find
NoTitle == "<no title>"       \* a document without a <title>
DetailTitle == "Inmate Population Information Detail"
OtherTitle == "Offender Search"

\* "Inmate Population Information Detail" in soup.title.string
ContainsMarker(title) == title \in {DetailTitle}

\* str.strip() on the cell texts used here.
Strip(s) ==
    CASE s = " " -> ""
      [] s = " Jane Doe " -> "Jane Doe"
      [] OTHER -> s

SentenceRow == <<"1/1/2000", "Theft", "2/1/2000", "Dade", "00-1", "5 Years">>
ShortRow == <<"1/1/2000", "Theft">>

\* The detail page of scenario A, with the cell texts as the page carries them.
BaseDoc ==
    [kind |-> "html", title |-> DetailTitle, name |-> " Jane Doe ", race |-> "White",
     sex |-> "Female", birth |-> "1/1/1980", sentence |-> <<SentenceRow>>,
     aliases |-> "Jane D.", incarceration |-> <<>>]

\* Responses a fetch can produce: every combination of the Name and Race
\* rows being absent, blank or filled, and the base page with one other part
\* changed; plus a second valid page that differs in its alias block.
Docs ==
    { [BaseDoc EXCEPT !.name = n, !.race = r] :
          n \in {Absent, " ", " Jane Doe "}, r \in {Absent, "", "White"} }
    \cup { [BaseDoc EXCEPT !.title = t] : t \in {NoTitle, OtherTitle} }
    \cup { [BaseDoc EXCEPT !.sentence = <<ShortRow>>],
           [BaseDoc EXCEPT !.aliases = Absent],
           [BaseDoc EXCEPT !.aliases = "J. Doe"] }

NetFail == [kind |-> "neterror"]   \* requests.get raised
NoResponse == [kind |-> "none"]    \* no request made yet
Responses == Docs \cup {NetFail}

\* ------------------------------------------------------------------------
\* fetch_inmate_details
\* ------------------------------------------------------------------------

None == [tag |-> "None"]
Dict(d) == [tag |-> "dict", val |-> d]
Raise(e) == [tag |-> "raise", exc |-> e]

\* The keys whose values are lists.
ListFields == {"Current Prison Sentence History", "Incarceration History"}

\* The dict built at lines 62-68, 90, 94 and 107.
InmateInfo(resp, dc) ==
    ("DC Number" :> dc) @@ ("Name" :> Strip(resp.name)) @@ ("Race" :> Strip(resp.race))
    @@ ("Sex" :> Strip(resp.sex)) @@ ("Birth Date" :> Strip(resp.birth))
    @@ ("Current Prison Sentence History" :> resp.sentence)
    @@ ("Aliases" :> Strip(resp.aliases))
    @@ ("Incarceration History" :> resp.incarceration)

\* The value fetch_inmate_details returns, or the exception it raises.
fetch_inmate_details(resp, dc) ==
    IF resp.kind = "neterror" THEN Raise("ConnectionError")
    ELSE IF resp.title = NoTitle THEN Raise("AttributeError")
    ELSE IF ~ContainsMarker(resp.title) THEN Dict(<<>>)
    ELSE IF resp.name = Absent THEN None
    ELSE IF Absent \in {resp.race, resp.sex, resp.birth} THEN Raise("AttributeError")
    ELSE IF Strip(resp.name) = "" \/ Strip(resp.race) = "" THEN None
    ELSE IF \E r \in 1..Len(resp.sentence) : Len(resp.sentence[r]) < 6
         THEN Raise("IndexError")
    ELSE IF resp.aliases = Absent THEN Raise("AttributeError")
    ELSE IF \E r \in 1..Len(resp.incarceration) : Len(resp.incarceration[r]) < 2
         THEN Raise("IndexError")
    ELSE Dict(InmateInfo(resp, dc))

\* Variant: the test written as `if inmate_details is not None:`.
TruthyNotNone(res) == res.tag = "dict"

\* `if inmate_details:` -- None and the empty dict are both false.
Truthy(res) == res.tag = "dict" /\ DOMAIN res.val # {}

\* ------------------------------------------------------------------------
\* The collection: update_one(filter, {'$set': info}, upsert=True)
\* ------------------------------------------------------------------------

\* Variant: the empty filter {}, which matches every document.
FilterMatchesAny(doc, k) == TRUE

\* The filter {'DC Number': k} on one document.
FilterMatches(doc, k) == "DC Number" \in DOMAIN doc /\ doc["DC Number"] = k

\* Variant: insert_one in place of the upsert, so nothing is ever matched.
FindNothing(coll, k) == 0

\* Position of the first document the filter matches, 0 when none does.
Find(coll, k) ==
    IF \E p \in 1..Len(coll) : FilterMatches(coll[p], k)
    THEN CHOOSE p \in 1..Len(coll) :
             /\ FilterMatches(coll[p], k)
             /\ \A q \in 1..(p - 1) : ~FilterMatches(coll[q], k)
    ELSE 0

\* Variant: replace_one, which stores info as the whole document.
SetFieldsReplace(doc, info) == info

\* $set: every field of info is written; the document's other fields stay.
SetFields(doc, info) ==
    [f \in DOMAIN doc \cup DOMAIN info |-> IF f \in DOMAIN info THEN info[f] ELSE doc[f]]

\* The write half of the upsert: update the matched document, or, when the
\* filter matched nothing, insert the filter's fields with $set applied.
Apply(coll, pos, k, info) ==
    IF pos = 0
    THEN Append(coll, SetFields("DC Number" :> k, info))
    ELSE [coll EXCEPT ![pos] = SetFields(@, info)]

\* One update_one call with no other client writing in between.
update_one(coll, k, info) == Apply(coll, Find(coll, k), k, info)

\* ------------------------------------------------------------------------
\* Presentation context
\* ------------------------------------------------------------------------

Restrict(f, S) == [x \in DOMAIN f \cap S |-> f[x]]

\* display_inmate_details: one label row per non-list item, one table per
\* history key that is present.  `ctx` is the context that runs it.
Render(details, ctx) ==
    [labels |-> Restrict(details, DOMAIN details \ ListFields),
     trees |-> Restrict(details, ListFields),
     by |-> ctx]

EmptyFrame == [labels |-> <<>>, trees |-> <<>>, by |-> "main"]

Shown(i, what, ctx) == [sink EXCEPT ![i] = Append(@, [kind |-> what, by |-> ctx])]

\* Running one queued callback in context ctx.  The lambda of the except arm
\* reads e when it runs: e is unbound once the except block has been left,
\* and the lambda then raises NameError instead of opening the dialog.
RunCallback(cb, ctx) ==
    CASE cb.kind = "display" ->
             /\ details_frame' = Render(cb.details, ctx)
             /\ sink' = Shown(cb.req, "record", ctx)
             /\ UNCHANGED tkErrors
      [] cb.kind = "showerror_invalid" ->
             /\ sink' = Shown(cb.req, "error", ctx)
             /\ UNCHANGED <<details_frame, tkErrors>>
      [] cb.kind = "showerror_exception" ->
             IF eBound[cb.req]
             THEN /\ sink' = Shown(cb.req, "error", ctx)
                  /\ UNCHANGED <<details_frame, tkErrors>>
             ELSE /\ tkErrors' = tkErrors \cup {cb.req}
                  /\ UNCHANGED <<details_frame, sink>>

\* Variant: the worker calls the callback itself instead of queueing it.
root_after_direct(cb) ==
    /\ RunCallback(cb, "worker")
    /\ UNCHANGED afterQueue

\* root.after(0, callback): the callback is queued for the main loop.
root_after(cb) ==
    /\ afterQueue' = Append(afterQueue, cb)
    /\ UNCHANGED <<details_frame, sink, tkErrors>>

Callback(k, i, d) == [kind |-> k, req |-> i, details |-> d]

\* ------------------------------------------------------------------------
\* Actions of the application
\* ------------------------------------------------------------------------

Init ==
    /\ nreq = 0
    /\ dc_number = [i \in Requests |-> ""]
    /\ pc = [i \in Requests |-> "unused"]
    /\ response = [i \in Requests |-> NoResponse]
    /\ inmate_details = [i \in Requests |-> None]
    /\ branch = [i \in Requests |-> "none"]
    /\ eBound = [i \in Requests |-> FALSE]
    /\ matched = [i \in Requests |-> 0]
    /\ storeFailed = [i \in Requests |-> FALSE]
    /\ collection = <<>>
    /\ afterQueue = <<>>
    /\ details_frame = EmptyFrame
    /\ sink = [i \in Requests |-> <<>>]
    /\ tkErrors = {}
    /\ calls = <<>>

\* Variant: the button callback without the `if dc_number:` test.
fetch_and_display_unchecked(text) ==
    /\ nreq < MaxRequests
    /\ nreq' = nreq + 1
    /\ dc_number' = [dc_number EXCEPT ![nreq + 1] = text]
    /\ pc' = [pc EXCEPT ![nreq + 1] = "fetch"]
    /\ UNCHANGED <<response, inmate_details, branch, eBound, matched, storeFailed,
                   collection, afterQueue, details_frame, sink, tkErrors, calls>>

\* The button callback, with `text` in the entry: start a thread for a
\* non-empty text, otherwise show the warning at once.
fetch_and_display_inmate_details(text) ==
    /\ nreq < MaxRequests
    /\ nreq' = nreq + 1
    /\ dc_number' = [dc_number EXCEPT ![nreq + 1] = text]
    /\ IF text # ""
       THEN /\ pc' = [pc EXCEPT ![nreq + 1] = "fetch"]
            /\ UNCHANGED sink
       ELSE /\ pc' = [pc EXCEPT ![nreq + 1] = "rejected"]
            /\ sink' = Shown(nreq + 1, "warning", "main")
    /\ UNCHANGED <<response, inmate_details, branch, eBound, matched, storeFailed,
                   collection, afterQueue, details_frame, tkErrors, calls>>

Request == \E text \in EntryTexts : fetch_and_display_inmate_details(text)

\* Thread i, line 216: the GET and the extraction, then the arm taken.
Fetch(i) ==
    /\ pc[i] = "fetch"
    /\ \E resp \in Responses :
         LET res == fetch_inmate_details(resp, dc_number[i]) IN
         /\ response' = [response EXCEPT ![i] = resp]
         /\ inmate_details' = [inmate_details EXCEPT ![i] = res]
         /\ IF res.tag = "raise"
            THEN /\ pc' = [pc EXCEPT ![i] = "except"]
                 /\ branch' = [branch EXCEPT ![i] = "exception"]
                 /\ eBound' = [eBound EXCEPT ![i] = TRUE]
            ELSE IF Truthy(res)
            THEN /\ pc' = [pc EXCEPT ![i] = "store"]
                 /\ branch' = [branch EXCEPT ![i] = "success"]
                 /\ UNCHANGED eBound
            ELSE /\ pc' = [pc EXCEPT ![i] = "invalid"]
                 /\ branch' = [branch EXCEPT ![i] = "invalid"]
                 /\ UNCHANGED eBound
    /\ UNCHANGED <<nreq, dc_number, matched, storeFailed, collection, afterQueue,
                   details_frame, sink, tkErrors, calls>>

\* Thread i in store_inmate_details: the server is reached and evaluates the
\* filter, or the call raises and the except clause of line 140 logs it and
\* returns normally.
StoreFind(i) ==
    /\ pc[i] = "store"
    /\ \E reachable \in BOOLEAN :
         IF reachable
         THEN /\ matched' = [matched EXCEPT ![i] = Find(collection, dc_number[i])]
              /\ pc' = [pc EXCEPT ![i] = "update"]
              /\ UNCHANGED storeFailed
         ELSE /\ storeFailed' = [storeFailed EXCEPT ![i] = TRUE]
              /\ pc' = [pc EXCEPT ![i] = "after_display"]
              /\ UNCHANGED matched
    /\ UNCHANGED <<nreq, dc_number, response, inmate_details, branch, eBound,
                   collection, afterQueue, details_frame, sink, tkErrors, calls>>

\* Thread i in store_inmate_details: the server writes.  No unique index on
\* 'DC Number' exists, so an upsert whose filter matched nothing inserts even
\* if another upsert for the same key has inserted in the meantime.
StoreWrite(i) ==
    /\ pc[i] = "update"
    /\ collection' = Apply(collection, matched[i], dc_number[i], inmate_details[i].val)
    /\ matched' = [matched EXCEPT ![i] = 0]
    /\ pc' = [pc EXCEPT ![i] = "after_display"]
    /\ UNCHANGED <<nreq, dc_number, response, inmate_details, branch, eBound,
                   storeFailed, afterQueue, details_frame, sink, tkErrors, calls>>

\* Thread i, line 220.
AfterDisplay(i) ==
    /\ pc[i] = "after_display"
    /\ root_after(Callback("display", i, inmate_details[i].val))
    /\ pc' = [pc EXCEPT ![i] = "done"]
    /\ UNCHANGED <<nreq, dc_number, response, inmate_details, branch, eBound, matched,
                   storeFailed, collection, calls>>

\* Thread i, line 222.
AfterInvalid(i) ==
    /\ pc[i] = "invalid"
    /\ root_after(Callback("showerror_invalid", i, <<>>))
    /\ pc' = [pc EXCEPT ![i] = "done"]
    /\ UNCHANGED <<nreq, dc_number, response, inmate_details, branch, eBound, matched,
                   storeFailed, collection, calls>>

\* Thread i, lines 224-225, inside the except block.
AfterException(i) ==
    /\ pc[i] = "except"
    /\ root_after(Callback("showerror_exception", i, <<>>))
    /\ pc' = [pc EXCEPT ![i] = "except_exit"]
    /\ UNCHANGED <<nreq, dc_number, response, inmate_details, branch, eBound, matched,
                   storeFailed, collection, calls>>

\* Thread i leaves the except block: Python unbinds e.
ExceptExit(i) ==
    /\ pc[i] = "except_exit"
    /\ eBound' = [eBound EXCEPT ![i] = FALSE]
    /\ pc' = [pc EXCEPT ![i] = "done"]
    /\ UNCHANGED <<nreq, dc_number, response, inmate_details, branch, matched,
                   storeFailed, collection, afterQueue, details_frame, sink, tkErrors,
                   calls>>

\* The main loop runs the oldest queued callback.
MainLoop ==
    /\ afterQueue # <<>>
    /\ RunCallback(Head(afterQueue), "main")
    /\ afterQueue' = Tail(afterQueue)
    /\ UNCHANGED <<nreq, dc_number, pc, response, inmate_details, branch, eBound,
                   matched, storeFailed, collection, calls>>

Next ==
    \/ Request
    \/ \E i \in Requests : Fetch(i)
    \/ \E i \in Requests : StoreFind(i)
    \/ \E i \in Requests : StoreWrite(i)
    \/ \E i \in Requests : AfterDisplay(i)
    \/ \E i \in Requests : AfterInvalid(i)
    \/ \E i \in Requests : AfterException(i)
    \/ \E i \in Requests : ExceptExit(i)
    \/ MainLoop

Spec == Init /\ [][Next]_vars

\* ------------------------------------------------------------------------
\* The repository on its own: store_inmate_details called with a dict
\* ------------------------------------------------------------------------

RepoFields == {"Name", "Aliases"}
RepoValues == {"A", "B"}

\* Dicts store_inmate_details accepts: a 'DC Number' and any of the other
\* fields.
RepoRecords ==
    { ("DC Number" :> k) @@ f :
          k \in Keys, f \in UNION { [S -> RepoValues] : S \in SUBSET RepoFields } }

\* The last two calls that wrote are remembered, the last one with the
\* collection it found.
Remember(c) ==
    IF calls = <<>>
    THEN <<c>>
    ELSE <<[calls[Len(calls)] EXCEPT !.before = <<>>], c>>

\* store_inmate_details(r), called from a single thread: the update_one call
\* is performed, or it raises and the error is logged.
store_inmate_details(r) ==
    /\ \E reachable \in BOOLEAN :
         IF reachable
         THEN /\ collection' = update_one(collection, r["DC Number"], r)
              /\ calls' = Remember([rec |-> r, before |-> collection])
         ELSE UNCHANGED <<collection, calls>>
    /\ UNCHANGED <<nreq, dc_number, pc, response, inmate_details, branch, eBound,
                   matched, storeFailed, afterQueue, details_frame, sink, tkErrors>>

NextRepo == \E r \in RepoRecords : store_inmate_details(r)

\* Collections a repository run starts from: the empty one, and one in which
\* two overlapping upserts have each inserted a document under the same key.
RepoCollections ==
    { <<>>,
      << ("DC Number" :> "123456") @@ ("Name" :> "A"),
         ("DC Number" :> "123456") @@ ("Name" :> "B") @@ ("Aliases" :> "B") >> }

InitRepo ==
    /\ nreq = 0
    /\ dc_number = [i \in Requests |-> ""]
    /\ pc = [i \in Requests |-> "unused"]
    /\ response = [i \in Requests |-> NoResponse]
    /\ inmate_details = [i \in Requests |-> None]
    /\ branch = [i \in Requests |-> "none"]
    /\ eBound = [i \in Requests |-> FALSE]
    /\ matched = [i \in Requests |-> 0]
    /\ storeFailed = [i \in Requests |-> FALSE]
    /\ collection \in RepoCollections
    /\ afterQueue = <<>>
    /\ details_frame = EmptyFrame
    /\ sink = [i \in Requests |-> <<>>]
    /\ tkErrors = {}
    /\ calls = <<>>

SpecRepo == InitRepo /\ [][NextRepo]_vars

\* ------------------------------------------------------------------------
\* Properties
\* ------------------------------------------------------------------------

Made == 1..nreq
Dispatched == { i \in Made : dc_number[i] # "" }

\* Request i has a callback of this kind waiting in the queue.
Queued(i, kind) ==
    \E q \in 1..Len(afterQueue) : afterQueue[q].req = i /\ afterQueue[q].kind = kind
Pending(i) == \E q \in 1..Len(afterQueue) : afterQueue[q].req = i

\* What the presentation sink has shown for request i.
Kinds(i) == { sink[i][n].kind : n \in 1..Len(sink[i]) }

\* Thread i has ended and the main loop has run what it queued.
Finished(i) == pc[i] = "done" /\ ~Pending(i)

\* Positions of the documents stored under key k.
StoredUnder(coll, k) ==
    { p \in 1..Len(coll) : "DC Number" \in DOMAIN coll[p] /\ coll[p]["DC Number"] = k }

\* The page of request i carries the detail-page marker in its title.
HasMarker(i) == response[i].kind = "html" /\ response[i].title = DetailTitle
LacksMarker(i) == response[i].kind = "html" /\ response[i].title # DetailTitle

\* C1: a request whose upsert failed never has its record handed to the
\* presentation sink: no display callback is queued for it and no record is
\* shown for it.
C1_RecordNotShownAfterFailedUpsert ==
    \A i \in Made :
        storeFailed[i] => ~Queued(i, "display") /\ "record" \notin Kinds(i)

\* C2: every dispatched request whose thread has ended and whose queued
\* callback has run has exactly one outcome in the sink: the record on the
\* success arm, one failure notification on the other two arms.
C2_ExactlyOneOutcomeShown ==
    \A i \in Dispatched :
        Finished(i) =>
            /\ Len(sink[i]) = 1
            /\ sink[i][1].kind = (IF branch[i] = "success" THEN "record" ELSE "error")

\* The last two calls of store_inmate_details wrote under the same key.
TwoUpserts ==
    /\ Len(calls) = 2
    /\ calls[1].rec["DC Number"] = calls[2].rec["DC Number"]

\* The first document under key k, the one update_one writes to.
FirstUnder(coll, k) ==
    CHOOSE p \in StoredUnder(coll, k) : \A q \in StoredUnder(coll, k) : p <= q

\* The document under the key of the last call, now and before that call.
LastKey == calls[Len(calls)].rec["DC Number"]
DocNow == collection[FirstUnder(collection, LastKey)]
DocBefore == calls[2].before[FirstUnder(calls[2].before, LastKey)]

C4_OneDocumentAfterRace ==
    \A i, j \in Dispatched :
        ( /\ i # j
          /\ dc_number[i] = dc_number[j]
          /\ \A h \in Dispatched : dc_number[h] = dc_number[i] => h \in {i, j}
          /\ branch[i] = "success" /\ branch[j] = "success"
          /\ inmate_details[i] # inmate_details[j]
          /\ pc[i] \in {"after_display", "done"} /\ pc[j] \in {"after_display", "done"}
          /\ ~storeFailed[i] /\ ~storeFailed[j] )
        => /\ Cardinality(StoredUnder(collection, dc_number[i])) = 1
           /\ \A p \in StoredUnder(collection, dc_number[i]) :
                  collection[p] \in {inmate_details[i].val, inmate_details[j].val}

\* C5: when every dispatched request had a valid page and a key of its own,
\* every upsert was performed and every thread has ended, the collection
\* holds one document per request, each equal to the record of its request.
C5_OneDocumentPerKey ==
    ( /\ \A i \in Dispatched :
             /\ pc[i] = "done"
             /\ branch[i] = "success"
             /\ ~storeFailed[i]
      /\ \A i, j \in Dispatched : i # j => dc_number[i] # dc_number[j] )
    => /\ Len(collection) = Cardinality(Dispatched)
       /\ \A i \in Dispatched :
              /\ Cardinality(StoredUnder(collection, dc_number[i])) = 1
              /\ \A p \in StoredUnder(collection, dc_number[i]) :
                     collection[p] = inmate_details[i].val

\* Two requests with different keys have both stored their records.
C5_Witness ==
    /\ Cardinality(Dispatched) = MaxRequests
    /\ \A i \in Dispatched : pc[i] = "done" /\ branch[i] = "success" /\ ~storeFailed[i]
    /\ \A i, j \in Dispatched : i # j => dc_number[i] # dc_number[j]
    /\ Len(collection) = MaxRequests

\* Name or Race is absent or blank on the page of request i.
MissingRequired(i) ==
    \/ response[i].name = Absent \/ Strip(response[i].name) = ""
    \/ response[i].race = Absent \/ Strip(response[i].race) = ""

\* C6: a page with the marker but without a Name or a Race never reaches the
\* store, never has a record queued or shown, and ends with one failure
\* notification shown.
C6_MissingFieldEndsInShownFailure ==
    \A i \in Dispatched :
        (HasMarker(i) /\ MissingRequired(i)) =>
            /\ branch[i] # "success"
            /\ ~storeFailed[i]
            /\ ~Queued(i, "display")
            /\ "record" \notin Kinds(i)
            /\ (Finished(i) => Kinds(i) = {"error"} /\ Len(sink[i]) = 1)

\* C7: a page without the marker (another title, or no title) never reaches
\* the store (nothing is stored under its key unless another request stored
\* it), never has a record queued or shown, and its request takes a failure
\* arm, never the success arm.
C7_NoMarkerNoRecord ==
    \A i \in Dispatched :
        LacksMarker(i) =>
            /\ branch[i] \in {"invalid", "exception"}
            /\ pc[i] \notin {"store", "update", "after_display"}
            /\ ~storeFailed[i]
            /\ matched[i] = 0
            /\ ( (\A j \in Dispatched \ {i} :
                       dc_number[j] = dc_number[i] => branch[j] # "success")
                 => StoredUnder(collection, dc_number[i]) = {} )
            /\ ~Queued(i, "display")
            /\ "record" \notin Kinds(i)

\* One request got a page with another title, one a page with no title, and
\* both have ended.
C7_Witness ==
    \E i, j \in Dispatched :
        /\ LacksMarker(i) /\ response[i].title = OtherTitle /\ Finished(i)
        /\ LacksMarker(j) /\ response[j].title = NoTitle /\ Finished(j)
        /\ sink[i] = <<[kind |-> "error", by |-> "main"]>>

\* C8: a request made with an empty entry is answered in the button callback
\* with the warning; it has no thread, no fetch, nothing queued, and nothing
\* is stored for it.
C8_EmptyKeyRejected ==
    \A i \in Made :
        dc_number[i] = "" =>
            /\ pc[i] = "rejected"
            /\ response[i] = NoResponse
            /\ branch[i] = "none"
            /\ ~Pending(i)
            /\ sink[i] = <<[kind |-> "warning", by |-> "main"]>>
            /\ matched[i] = 0 /\ ~storeFailed[i]
            /\ StoredUnder(collection, "") = {}

\* An empty request was rejected while another request was at work.
C8_Witness ==
    \E i, j \in Made :
        /\ dc_number[i] = "" /\ pc[i] = "rejected"
        /\ dc_number[j] # "" /\ pc[j] = "done" /\ collection # <<>>

\* C9: whatever is drawn in the details frame or shown in a dialog was
\* drawn by the main thread; a thread that has passed its root.after call has
\* its callback in the queue or run by the main loop, once.
C9_RenderOnlyInMainThread ==
    /\ details_frame.by = "main"
    /\ \A i \in Made : \A n \in 1..Len(sink[i]) : sink[i][n].by = "main"
    /\ \A i \in Dispatched :
           pc[i] \in {"done", "except_exit"} =>
               \/ Pending(i) /\ sink[i] = <<>> /\ i \notin tkErrors
               \/ ~Pending(i) /\ Len(sink[i]) = 1 /\ i \notin tkErrors
               \/ ~Pending(i) /\ sink[i] = <<>> /\ i \in tkErrors

\* A record is on display and a failure dialog was shown for another request.
C9_Witness ==
    /\ details_frame # EmptyFrame
    /\ \E i, j \in Dispatched :
           /\ sink[i] = <<[kind |-> "record", by |-> "main"]>>
           /\ sink[j] = <<[kind |-> "error", by |-> "main"]>>
           /\ branch[j] = "exception"

\* C10: when the last two upserts wrote the same record, the second left the
\* collection as the first had left it.
C10_UpsertIdempotent ==
    (Len(calls) = 2 /\ calls[1].rec = calls[2].rec) => collection = calls[2].before

\* The same record was upserted twice into a collection holding another key.
C10_Witness ==
    /\ Len(calls) = 2
    /\ calls[1].rec = calls[2].rec
    /\ Len(collection) >= 2
    /\ \E p \in 1..Len(collection) : collection[p]["DC Number"] # LastKey

====
